---- MODULE Spec2Model ----
(***************************************************************************)
(* State-machine model of whisperx/app/transcription_workers.py:           *)
(* one execution of ModelLoaderWorker.run() or TranscriptionWorker.run(),  *)
(* the two progress/status callbacks the Bridge (WhisperXBridge) invokes,  *)
(* and the events (Qt signals) the worker emits.                           *)
(*                                                                         *)
(* The Bridge and torch are external: the Bridge may invoke the callbacks  *)
(* any number of times with any values, then return or raise; every torch  *)
(* call of the device setup may return or raise.  A fault is a Python      *)
(* exception, given by its class and its message (str(e)).                 *)
(* Time is counted in whole seconds; time.time() is the wall clock         *)
(* (seconds since 1970), which never is below ClockStart.                  *)
(***************************************************************************)
EXTENDS Integers, Sequences, FiniteSets

\* ------------------------------------------------------------------ bounds
MaxCallbacks == 2      \* callbacks the Bridge makes during one operation
MaxRaw       == 2      \* largest raw progress value the Bridge passes
MaxFeed      == 7      \* raw values fed to a fresh worker's callback, no delay
MaxTimedFeed == 3      \* raw values fed to a fresh worker's callback, delayed
ClockStart   == 2      \* the wall clock when the worker is constructed

\* Raw progress values of the Bridge; -1 stands for an out-of-range value.
RawValues == (0 - 1)..MaxRaw

\* ------------------------------------------------------------------ values
None == "None"

StatusTexts == {"bridge status"}
ModelSets   == {"modelset_A"}
Results     == {"result_A", "result_B"}

\* TranscriptionConfig: the fields the workers read.
Configs ==
    { [device |-> d[1], device_index |-> d[2], audio_file |-> a] :
        d \in {<<"cpu", 1>>, <<"cuda", 1>>},
        a \in {None, "", "audio.wav"} }

\* Faults: Python exceptions, by class and message.
NoFault == [cls |-> "", msg |-> ""]
Fault(c, m) == [cls |-> c, msg |-> m]

ImportFault    == Fault("ImportError", "No module named 'torch'")
ConstructFault == Fault("RuntimeError", "bridge construction failed")
DeviceFault    == Fault("RuntimeError", "CUDA error")
BridgeFault    == Fault("RuntimeError", "bridge operation failed")
EmitFault      == Fault("TypeError", "signal emit failed")

\* Classes derived from Exception (all faults above are).
ExceptionClasses == {"ImportError", "RuntimeError", "TypeError", "ValueError"}

\* ------------------------------------------------------------------ events
\* WorkerSignals: one record per signal emission.
Ev(t, p, s, d) == [type |-> t, pct |-> p, text |-> s, data |-> d]
progress_updated(p)        == Ev("progress_updated", p, "", "")
status_updated(s)          == Ev("status_updated", 0, s, "")
finished                   == Ev("finished", 0, "", "")
error(m)                   == Ev("error", 0, m, "")
transcription_completed(r) == Ev("transcription_completed", 0, "", r)
models_loaded(m)           == Ev("models_loaded", 0, "", m)

\* ------------------------------------------------------------------- state
VARIABLES
    kind,                 \* "loader" (ModelLoaderWorker) or "transcriber"
    config,               \* self.config
    models,               \* self.models (TranscriptionWorker), None if absent
    cudaAvailable,        \* what torch.cuda.is_available() returns
    bridge,               \* self.bridge
    pc,                   \* position of run()
    events,               \* the signals emitted so far, in order
    exc,                  \* the exception being propagated / handled
    outcome,              \* "pending", "returned" or "raised" (run()'s end)
    last_progress_time,   \* self._last_progress_time
    last_progress_value,  \* self._last_progress_value
    now,                  \* the wall clock, time.time()
    cbLog,                \* history: every callback the Bridge made
    devOps,               \* history: the torch device operations performed
    bridgeCalls,          \* history: the Bridge operations invoked
    retval,               \* the local `models` / `result` of run()
    thread,               \* the thread that runs this worker's code
    \* a second worker (a TranscriptionWorker) of the same process
    o_pc,                 \* position of its run(), "absent" if there is none
    o_events,             \* the signals of its own WorkerSignals
    o_last_progress_time, \* its self._last_progress_time
    o_last_progress_value,\* its self._last_progress_value
    o_cbLog,              \* history: the raw progress values delivered to it
    \* state of the torch runtime, one per process
    num_threads           \* the intra-op thread count: n, 0 until it is set,
                          \* and `by`, history: the tasks that have set it

other == <<o_pc, o_events, o_last_progress_time, o_last_progress_value, o_cbLog>>

vars == <<kind, config, models, cudaAvailable, bridge, pc, events, exc, outcome,
          last_progress_time, last_progress_value, now, cbLog, devOps,
          bridgeCalls, retval, thread, other, num_threads>>

ctor     == <<kind, config, models, cudaAvailable>>
throttle == <<last_progress_time, last_progress_value, now, cbLog>>

\* Threads: the one that constructs the workers, and the pool's.
MainThread  == "main"
PoolThreads == {"pool-1"}

\* The tasks of the process: the worker and the second worker.
Task1 == "task-1"
Task2 == "task-2"

\* torch.set_num_threads(n) called by task t
SetNumThreads(n, t) == [n |-> n, by |-> num_threads.by \cup {t}]

\* Mutant: the bridge constructed in __init__.
ModelLoaderWorker_init_eager ==
    /\ kind = "loader"
    /\ config \in Configs
    /\ models = None
    /\ bridge = "WhisperXBridge"
    /\ last_progress_time = 0
    /\ last_progress_value = 0 - 1

\* --------------------------------------------------------------- __init__
ModelLoaderWorker_init ==
    /\ kind = "loader"
    /\ config \in Configs
    /\ models = None
    /\ bridge = None
    \* ModelLoaderWorker has no throttle fields; they are never read for it
    /\ last_progress_time = 0
    /\ last_progress_value = 0 - 1

TranscriptionWorker_init ==
    /\ kind = "transcriber"
    /\ config \in Configs
    /\ models \in {None} \cup ModelSets
    /\ bridge = None
    /\ last_progress_time = 0
    /\ last_progress_value = 0 - 1

InitWorker ==
    /\ cudaAvailable \in BOOLEAN
    /\ \/ ModelLoaderWorker_init
       \/ TranscriptionWorker_init
    /\ pc = "created"
    /\ events = <<>>
    /\ exc = NoFault
    /\ outcome = "pending"
    /\ now = ClockStart
    /\ cbLog = <<>>
    /\ devOps = <<>>
    /\ bridgeCalls = <<>>
    /\ retval = None
    /\ thread = MainThread
    /\ o_events = <<>>
    /\ o_last_progress_time = 0
    /\ o_last_progress_value = 0 - 1
    /\ o_cbLog = <<>>
    /\ num_threads = [n |-> 0, by |-> {}]

\* One worker alone.
Init ==
    /\ InitWorker
    /\ o_pc = "absent"

\* ------------------------------------------------- raising and catching
\* Mutant: the handler written as `except ValueError`.
Catches_ValueError_only(f) == f.cls = "ValueError"

\* `except Exception as e` (lines 87 and 167): the classes it catches.
Catches(f) == f.cls \in ExceptionClasses

\* A statement of the try block raises f: control goes to the handler if the
\* except clause catches f, otherwise out of run().
Raise(f) ==
    /\ exc' = f
    /\ pc' = IF Catches(f) THEN "except" ELSE "done"
    /\ outcome' = IF Catches(f) THEN outcome ELSE "raised"

\* Mutant: the emit wrapped in its own try/except that swallows the fault.
EmitThen_swallowing(e, next) ==
    /\ pc' = next
    /\ UNCHANGED <<exc, outcome>>
    /\ \/ events' = Append(events, e)
       \/ UNCHANGED events

\* signal.emit(...) inside the try block: the event is emitted and run() goes
\* on at `next`, or the emit raises and emits nothing.
EmitThen(e, next) ==
    \/ /\ events' = Append(events, e)
       /\ pc' = next
       /\ UNCHANGED <<exc, outcome>>
    \/ /\ Raise(EmitFault)
       /\ UNCHANGED events

\* Where run() goes on after the device setup.
AfterDeviceSetup == IF kind = "loader" THEN "emit_start_status" ELSE "check_audio"

\* ------------------------------------------------------ run(): the set-up
\* The thread pool calls run().
run_begin ==
    /\ pc = "created"
    /\ pc' = "import"
    /\ thread' \in PoolThreads
    /\ UNCHANGED <<ctor, other, num_threads, bridge, events, exc, outcome, throttle, devOps,
                   bridgeCalls, retval>>

\* import torch; from whisperx.app.whisperx_bridge import WhisperXBridge
lazy_import ==
    /\ pc = "import"
    /\ \/ pc' = "construct" /\ UNCHANGED <<exc, outcome>>
       \/ Raise(ImportFault)
    /\ UNCHANGED <<ctor, thread, other, num_threads, bridge, events, throttle, devOps, bridgeCalls, retval>>

\* self.bridge = WhisperXBridge()
create_bridge ==
    /\ pc = "construct"
    /\ \/ /\ bridge' = "WhisperXBridge"
          /\ pc' = "cuda_check"
          /\ UNCHANGED <<exc, outcome>>
       \/ Raise(ConstructFault) /\ UNCHANGED bridge
    /\ UNCHANGED <<ctor, thread, other, num_threads, events, throttle, devOps, bridgeCalls, retval>>

\* Mutant: the audio-file check made before the device setup.
cuda_is_available_after_audio_check ==
    /\ pc = "cuda_check"
    /\ IF kind = "transcriber" /\ config.audio_file \in {None, ""}
         THEN Raise(Fault("ValueError", "No audio file specified!"))
         ELSE /\ pc' = IF cudaAvailable THEN "set_num_threads" ELSE AfterDeviceSetup
              /\ UNCHANGED <<exc, outcome>>
    /\ UNCHANGED <<ctor, thread, other, num_threads, bridge, events, throttle, devOps, bridgeCalls, retval>>

\* if torch.cuda.is_available():
cuda_is_available ==
    /\ pc = "cuda_check"
    /\ pc' = IF cudaAvailable THEN "set_num_threads" ELSE AfterDeviceSetup
    /\ UNCHANGED <<ctor, thread, other, num_threads, bridge, events, exc, outcome, throttle, devOps,
                   bridgeCalls, retval>>

DevOp(o, a) == [op |-> o, arg |-> a, thread |-> thread]

\* torch.set_num_threads(1)
set_num_threads ==
    /\ pc = "set_num_threads"
    /\ devOps' = Append(devOps, DevOp("set_num_threads", 1))
    /\ num_threads' = SetNumThreads(1, Task1)
    /\ pc' = "device_enter"
    /\ UNCHANGED <<ctor, thread, other, bridge, events, exc, outcome, throttle, bridgeCalls,
                   retval>>

\* Mutant: the device index taken from the config whatever the device is.
device_id_ignoring_device == config.device_index

\* device_id = self.config.device_index if self.config.device == 'cuda' else 0
device_id == IF config.device = "cuda" THEN config.device_index ELSE 0

\* with torch.cuda.device(device_id):    (entering the context)
device_enter ==
    /\ pc = "device_enter"
    /\ \/ /\ devOps' = Append(devOps, DevOp("device_enter", device_id))
          /\ pc' = "current_device"
          /\ UNCHANGED <<exc, outcome>>
       \/ Raise(DeviceFault) /\ UNCHANGED devOps
    /\ UNCHANGED <<ctor, thread, other, num_threads, bridge, events, throttle, bridgeCalls, retval>>

\* torch.cuda.current_device(); a fault leaves the with block
current_device ==
    /\ pc = "current_device"
    /\ \/ /\ devOps' = Append(devOps, DevOp("current_device", device_id))
          /\ pc' = "synchronize"
          /\ UNCHANGED <<exc, outcome>>
       \/ /\ Raise(DeviceFault)
          /\ devOps' = Append(devOps, DevOp("device_exit", device_id))
    /\ UNCHANGED <<ctor, thread, other, num_threads, bridge, events, throttle, bridgeCalls, retval>>

\* Mutant: a fault of synchronize is caught on the spot and run() goes on.
synchronize_fault_ignored ==
    /\ pc = "synchronize"
    /\ \/ /\ devOps' = devOps \o <<DevOp("synchronize", device_id),
                                   DevOp("device_exit", device_id)>>
          /\ UNCHANGED exc
       \/ /\ exc' = DeviceFault
          /\ devOps' = Append(devOps, DevOp("device_exit", device_id))
    /\ pc' = AfterDeviceSetup
    /\ UNCHANGED <<ctor, thread, other, num_threads, bridge, events, outcome, throttle,
                   bridgeCalls, retval>>

\* torch.cuda.synchronize(), then the with block is left
synchronize ==
    /\ pc = "synchronize"
    /\ \/ /\ devOps' = devOps \o <<DevOp("synchronize", device_id),
                                   DevOp("device_exit", device_id)>>
          /\ pc' = AfterDeviceSetup
          /\ UNCHANGED <<exc, outcome>>
       \/ /\ Raise(DeviceFault)
          /\ devOps' = Append(devOps, DevOp("device_exit", device_id))
    /\ UNCHANGED <<ctor, thread, other, num_threads, bridge, events, throttle, bridgeCalls, retval>>

\* Python truth value of config.audio_file
Falsy(x) == x \in {None, ""}

\* Mutant: the check of the audio file left out.
check_audio_file_missing ==
    /\ pc = "check_audio"
    /\ kind = "transcriber"
    /\ pc' = "emit_start_status"
    /\ UNCHANGED <<ctor, thread, other, num_threads, bridge, events, exc, outcome, throttle, devOps,
                   bridgeCalls, retval>>

\* if not self.config.audio_file: raise ValueError("No audio file specified!")
check_audio_file ==
    /\ pc = "check_audio"
    /\ kind = "transcriber"
    /\ IF Falsy(config.audio_file)
         THEN Raise(Fault("ValueError", "No audio file specified!"))
         ELSE pc' = "emit_start_status" /\ UNCHANGED <<exc, outcome>>
    /\ UNCHANGED <<ctor, thread, other, num_threads, bridge, events, throttle, devOps, bridgeCalls, retval>>

\* self.signals.status_updated.emit("Loading model" / "Starting transcription...")
StartStatus == IF kind = "loader" THEN "Loading model" ELSE "Starting transcription..."

emit_start_status ==
    /\ pc = "emit_start_status"
    /\ EmitThen(status_updated(StartStatus), "emit_start_progress")
    /\ UNCHANGED <<ctor, thread, other, num_threads, bridge, throttle, devOps, bridgeCalls, retval>>

\* self.signals.progress_updated.emit(0)
emit_start_progress ==
    /\ pc = "emit_start_progress"
    /\ EmitThen(progress_updated(0), "call_bridge")
    /\ UNCHANGED <<ctor, thread, other, num_threads, bridge, throttle, devOps, bridgeCalls, retval>>

\* ------------------------------------------------------------ callbacks
ThrottleDelta   == 2   \* progress - self._last_progress_value >= 2
ThrottleSeconds == 2   \* current_time - self._last_progress_time >= 2

\* Seconds between two readings of the clock: none, below the throttle's
\* threshold, the threshold.
Delays == 0..ThrottleSeconds

CbProgress(p, t, e) == [cb |-> "progress", p |-> p, text |-> "", t |-> t, emitted |-> e]
CbStatus(s, t)      == [cb |-> "status", p |-> 0, text |-> s, t |-> t, emitted |-> TRUE]

\* Mutant: the loader's callback throttled like the transcriber's.
ModelLoaderWorker_on_progress_update_throttled(progress) ==
    /\ IF progress - last_progress_value >= ThrottleDelta
         THEN /\ events' = Append(events, progress_updated(progress))
              /\ last_progress_value' = progress
         ELSE UNCHANGED <<events, last_progress_value>>
    /\ cbLog' = Append(cbLog, CbProgress(progress, now, TRUE))
    /\ UNCHANGED <<last_progress_time, now>>

\* ModelLoaderWorker._on_progress_update(progress)
ModelLoaderWorker_on_progress_update(progress) ==
    /\ events' = Append(events, progress_updated(progress))
    /\ cbLog' = Append(cbLog, CbProgress(progress, now, TRUE))
    /\ UNCHANGED <<last_progress_time, last_progress_value, now>>

\* ModelLoaderWorker._on_status_update(status) and
\* TranscriptionWorker._on_status_update(status)
on_status_update(status) ==
    /\ events' = Append(events, status_updated(status))
    /\ cbLog' = Append(cbLog, CbStatus(status, now))
    /\ UNCHANGED <<last_progress_time, last_progress_value, now>>

\* Mutant: the comparisons written with > instead of >=.
ShouldEmit_strict(progress, current_time) ==
    \/ progress - last_progress_value > ThrottleDelta
    \/ current_time - last_progress_time > ThrottleSeconds

\* Mutant: the test of the elapsed time left out.
ShouldEmit_delta_only(progress, current_time) ==
    progress - last_progress_value >= ThrottleDelta

\* The condition of TranscriptionWorker._on_progress_update
ShouldEmit(progress, current_time) ==
    \/ progress - last_progress_value >= ThrottleDelta
    \/ current_time - last_progress_time >= ThrottleSeconds

\* Mutant: the emitted value is not recorded in _last_progress_value.
TranscriptionWorker_on_progress_update_stale(progress, current_time) ==
    /\ now' = current_time
    /\ IF ShouldEmit(progress, current_time)
         THEN /\ events' = Append(events, progress_updated(progress))
              /\ last_progress_time' = current_time
              /\ UNCHANGED last_progress_value
         ELSE UNCHANGED <<events, last_progress_time, last_progress_value>>
    /\ cbLog' = Append(cbLog,
                       CbProgress(progress, current_time,
                                  ShouldEmit(progress, current_time)))

\* TranscriptionWorker._on_progress_update(progress), time.time() returning
\* current_time
TranscriptionWorker_on_progress_update(progress, current_time) ==
    /\ now' = current_time
    /\ IF ShouldEmit(progress, current_time)
         THEN /\ events' = Append(events, progress_updated(progress))
              /\ last_progress_time' = current_time
              /\ last_progress_value' = progress
         ELSE UNCHANGED <<events, last_progress_time, last_progress_value>>
    /\ cbLog' = Append(cbLog,
                       CbProgress(progress, current_time,
                                  ShouldEmit(progress, current_time)))

\* ------------------------------------------------- run(): the Bridge call
BridgeCall(o, m) == [op |-> o, models |-> m, thread |-> thread]

\* models = self.bridge.load_models(config, progress_callback, status_callback)
call_load_models ==
    /\ pc = "call_bridge"
    /\ kind = "loader"
    /\ bridgeCalls' = Append(bridgeCalls, BridgeCall("load_models", None))
    /\ pc' = "in_bridge"
    /\ UNCHANGED <<ctor, thread, other, num_threads, bridge, events, exc, outcome, throttle, devOps, retval>>

\* result = self.bridge.transcribe_audio(config, models, progress_callback,
\*                                       status_callback)
call_transcribe_audio ==
    /\ pc = "call_bridge"
    /\ kind = "transcriber"
    /\ bridgeCalls' = Append(bridgeCalls, BridgeCall("transcribe_audio", models))
    /\ pc' = "in_bridge"
    /\ UNCHANGED <<ctor, thread, other, num_threads, bridge, events, exc, outcome, throttle, devOps, retval>>

\* The Bridge, inside load_models, calls progress_callback(p).
bridge_progress_loader ==
    /\ pc = "in_bridge"
    /\ kind = "loader"
    /\ Len(cbLog) < MaxCallbacks
    /\ \E p \in RawValues : ModelLoaderWorker_on_progress_update(p)
    /\ UNCHANGED <<ctor, thread, other, num_threads, bridge, pc, exc, outcome, devOps, bridgeCalls, retval>>

\* The Bridge, inside transcribe_audio, calls progress_callback(p), dt seconds
\* after the previous reading of the clock.
bridge_progress_transcriber ==
    /\ pc = "in_bridge"
    /\ kind = "transcriber"
    /\ Len(cbLog) < MaxCallbacks
    /\ \E p \in RawValues, dt \in Delays :
          TranscriptionWorker_on_progress_update(p, now + dt)
    /\ UNCHANGED <<ctor, thread, other, num_threads, bridge, pc, exc, outcome, devOps, bridgeCalls, retval>>

\* The Bridge calls status_callback(s).
bridge_status ==
    /\ pc = "in_bridge"
    /\ Len(cbLog) < MaxCallbacks
    /\ \E s \in StatusTexts : on_status_update(s)
    /\ UNCHANGED <<ctor, thread, other, num_threads, bridge, pc, exc, outcome, devOps, bridgeCalls, retval>>

\* The Bridge operation returns its result.
bridge_return ==
    /\ pc = "in_bridge"
    /\ retval' \in (IF kind = "loader" THEN ModelSets ELSE Results)
    /\ pc' = "emit_done_progress"
    /\ UNCHANGED <<ctor, thread, other, num_threads, bridge, events, exc, outcome, throttle, devOps,
                   bridgeCalls>>

\* The Bridge operation raises.
bridge_raise ==
    /\ pc = "in_bridge"
    /\ Raise(BridgeFault)
    /\ UNCHANGED <<ctor, thread, other, num_threads, bridge, events, throttle, devOps, bridgeCalls, retval>>

\* ------------------------------------------------ run(): the success path
\* Mutant: the final progress event left out.
emit_done_progress_missing ==
    /\ pc = "emit_done_progress"
    /\ pc' = "emit_done_status"
    /\ UNCHANGED <<ctor, thread, other, num_threads, bridge, events, exc, outcome, throttle, devOps,
                   bridgeCalls, retval>>

\* self.signals.progress_updated.emit(100)
emit_done_progress ==
    /\ pc = "emit_done_progress"
    /\ EmitThen(progress_updated(100), "emit_done_status")
    /\ UNCHANGED <<ctor, thread, other, num_threads, bridge, throttle, devOps, bridgeCalls, retval>>

\* Mutant: the two workers' final status texts exchanged.
DoneStatus_exchanged ==
    IF kind = "loader" THEN "Transcription completed" ELSE "Models loaded successfully"

\* self.signals.status_updated.emit("Models loaded successfully" /
\*                                  "Transcription completed")
DoneStatus ==
    IF kind = "loader" THEN "Models loaded successfully" ELSE "Transcription completed"

emit_done_status ==
    /\ pc = "emit_done_status"
    /\ EmitThen(status_updated(DoneStatus), "emit_data")
    /\ UNCHANGED <<ctor, thread, other, num_threads, bridge, throttle, devOps, bridgeCalls, retval>>

\* Mutant: the payload replaced by a summary made of it.
DataEvent_summarised(r) ==
    IF kind = "loader" THEN models_loaded("summary") ELSE transcription_completed("summary")

\* self.signals.models_loaded.emit(models) /
\* self.signals.transcription_completed.emit(result)
DataEvent(r) == IF kind = "loader" THEN models_loaded(r) ELSE transcription_completed(r)

emit_data ==
    /\ pc = "emit_data"
    /\ EmitThen(DataEvent(retval), "emit_finished")
    /\ UNCHANGED <<ctor, thread, other, num_threads, bridge, throttle, devOps, bridgeCalls, retval>>

\* self.signals.finished.emit(); run() returns
emit_finished ==
    /\ pc = "emit_finished"
    /\ \/ /\ events' = Append(events, finished)
          /\ pc' = "done"
          /\ outcome' = "returned"
          /\ UNCHANGED exc
       \/ /\ Raise(EmitFault)
          /\ UNCHANGED events
    /\ UNCHANGED <<ctor, thread, other, num_threads, bridge, throttle, devOps, bridgeCalls, retval>>

\* --------------------------------------------------- run(): the handler
\* Mutant: the handler emits a fixed text instead of str(e).
handle_exception_fixed_text ==
    /\ pc = "except"
    /\ events' = Append(events, error("Transcription failed"))
    /\ pc' = "done"
    /\ outcome' = "returned"
    /\ UNCHANGED <<ctor, thread, other, num_threads, bridge, exc, throttle, devOps, bridgeCalls,
                   retval>>

\* Mutant: finished emitted after the handler, as from a `finally` block.
handle_exception_then_finished ==
    /\ pc = "except"
    /\ events' = events \o <<error(exc.msg), finished>>
    /\ pc' = "done"
    /\ outcome' = "returned"
    /\ UNCHANGED <<ctor, thread, other, num_threads, bridge, exc, throttle, devOps, bridgeCalls, retval>>

\* Mutant: the handler waits for the consumer to acknowledge the error.
handle_exception_blocking ==
    /\ pc = "except"
    /\ events' = Append(events, error(exc.msg))
    /\ pc' = "wait_ack"
    /\ UNCHANGED <<ctor, thread, other, num_threads, bridge, exc, outcome, throttle, devOps,
                   bridgeCalls, retval>>

\* except Exception as e: traceback.print_exc(); self.signals.error.emit(str(e))
handle_exception ==
    /\ pc = "except"
    /\ events' = Append(events, error(exc.msg))
    /\ pc' = "done"
    /\ outcome' = "returned"
    /\ UNCHANGED <<ctor, thread, other, num_threads, bridge, exc, throttle, devOps, bridgeCalls, retval>>

\* ------------------------------------------------------- specification
Next ==
    \/ run_begin
    \/ lazy_import
    \/ create_bridge
    \/ cuda_is_available
    \/ set_num_threads
    \/ device_enter
    \/ current_device
    \/ synchronize
    \/ check_audio_file
    \/ emit_start_status
    \/ emit_start_progress
    \/ call_load_models
    \/ call_transcribe_audio
    \/ bridge_progress_loader
    \/ bridge_progress_transcriber
    \/ bridge_status
    \/ bridge_return
    \/ bridge_raise
    \/ emit_done_progress
    \/ emit_done_status
    \/ emit_data
    \/ emit_finished
    \/ handle_exception

Spec == Init /\ [][Next]_vars

\* The pool thread executes run() without preemption or yielding, and both the
\* device setup and the Bridge operation return or fault: a step of the run
\* that can be taken is eventually taken.
SpecLive == Init /\ [][Next]_vars /\ WF_vars(Next)

\* ------------------------------------------- two workers of one process
\* A second worker, a TranscriptionWorker with its audio file set, is run by
\* another pool thread while the first runs. Its fields are the o_
\* variables; the clock, is_available() and the intra-op thread count
\* belong to the process.
MaxOtherCallbacks == 1

\* In the pair, the raw values a Bridge passes and the delays between them.
PairRawValues == {0, ThrottleDelta}
PairDelays    == {0, ThrottleSeconds}

task1 == <<kind, config, models, cudaAvailable, bridge, pc, events, exc, outcome,
           cbLog, devOps, bridgeCalls, retval, thread>>
throttle1 == <<last_progress_time, last_progress_value>>
throttle2 == <<o_last_progress_time, o_last_progress_value>>

InitPair ==
    /\ InitWorker
    /\ cudaAvailable
    /\ kind = "transcriber"
    /\ config = [device |-> "cuda", device_index |-> 1, audio_file |-> "audio.wav"]
    /\ models = None
    /\ o_pc = "created"

\* run() of the second worker: import, WhisperXBridge()   (lines 123-131)
o_run_begin ==
    /\ o_pc = "created"
    /\ o_pc' = "cuda_check"
    /\ UNCHANGED <<task1, throttle1, now, num_threads, o_events, throttle2, o_cbLog>>

\* its device setup (lines 135-145): set_num_threads(1), then the device
\* context of its own thread, which may fault
o_device_setup ==
    /\ o_pc = "cuda_check"
    /\ IF cudaAvailable
         THEN /\ num_threads' = SetNumThreads(1, Task2)
              /\ o_pc' \in {"emit_start", "except"}
         ELSE /\ o_pc' = "emit_start"
              /\ UNCHANGED num_threads
    /\ UNCHANGED <<task1, throttle1, now, o_events, throttle2, o_cbLog>>

\* status_updated("Starting transcription..."), progress_updated(0), then
\* bridge.transcribe_audio is called   (lines 150-160)
o_emit_start ==
    /\ o_pc = "emit_start"
    /\ o_events' = o_events \o << status_updated("Starting transcription..."),
                                  progress_updated(0) >>
    /\ o_pc' = "in_bridge"
    /\ UNCHANGED <<task1, throttle1, now, num_threads, throttle2, o_cbLog>>

\* The condition of _on_progress_update, on the second worker's fields
o_ShouldEmit(progress, current_time) ==
    \/ progress - o_last_progress_value >= ThrottleDelta
    \/ current_time - o_last_progress_time >= ThrottleSeconds

\* Mutant: the throttle state kept in class attributes, shared by instances.
o_on_progress_update_class_state(progress) ==
    /\ IF ShouldEmit(progress, now)
         THEN /\ o_events' = Append(o_events, progress_updated(progress))
              /\ last_progress_time' = now
              /\ last_progress_value' = progress
         ELSE UNCHANGED <<o_events, last_progress_time, last_progress_value>>
    /\ o_cbLog' = Append(o_cbLog, CbProgress(progress, now, ShouldEmit(progress, now)))
    /\ UNCHANGED throttle2

\* TranscriptionWorker._on_progress_update(progress) of the second worker
o_on_progress_update(progress) ==
    /\ IF o_ShouldEmit(progress, now)
         THEN /\ o_events' = Append(o_events, progress_updated(progress))
              /\ o_last_progress_time' = now
              /\ o_last_progress_value' = progress
         ELSE UNCHANGED <<o_events, o_last_progress_time, o_last_progress_value>>
    /\ o_cbLog' = Append(o_cbLog, CbProgress(progress, now, o_ShouldEmit(progress, now)))
    /\ UNCHANGED throttle1

\* its Bridge calls progress_callback(p)
o_bridge_progress ==
    /\ o_pc = "in_bridge"
    /\ Len(o_cbLog) < MaxOtherCallbacks
    /\ \E p \in PairRawValues : o_on_progress_update(p)
    /\ UNCHANGED <<task1, now, num_threads, o_pc>>

\* its Bridge returns: progress_updated(100), status_updated, the result,
\* finished   (lines 162-165)
o_bridge_return ==
    /\ o_pc = "in_bridge"
    /\ o_events' = o_events \o << progress_updated(100),
                                  status_updated("Transcription completed"),
                                  transcription_completed("result_A"),
                                  finished >>
    /\ o_pc' = "done"
    /\ UNCHANGED <<task1, throttle1, now, num_threads, throttle2, o_cbLog>>

\* its Bridge raises
o_bridge_raise ==
    /\ o_pc = "in_bridge"
    /\ o_pc' = "except_bridge"
    /\ UNCHANGED <<task1, throttle1, now, num_threads, o_events, throttle2, o_cbLog>>

\* its handler: error.emit(str(e))   (lines 167-169)
o_handle_exception ==
    /\ o_pc \in {"except", "except_bridge"}
    /\ o_events' = Append(o_events,
                          error(IF o_pc = "except" THEN DeviceFault.msg
                                                   ELSE BridgeFault.msg))
    /\ o_pc' = "done"
    /\ UNCHANGED <<task1, throttle1, now, num_threads, throttle2, o_cbLog>>

NextOther ==
    \/ o_run_begin
    \/ o_device_setup
    \/ o_emit_start
    \/ o_bridge_progress
    \/ o_bridge_return
    \/ o_bridge_raise
    \/ o_handle_exception

\* The first worker's Bridge calls progress_callback in the pair.
pair_bridge_progress ==
    /\ bridge_progress_transcriber
    /\ cbLog'[Len(cbLog')].p \in PairRawValues
    /\ now' - now \in PairDelays

\* The steps of run() of a TranscriptionWorker.
NextTranscriber ==
    \/ run_begin
    \/ lazy_import
    \/ create_bridge
    \/ cuda_is_available
    \/ set_num_threads
    \/ device_enter
    \/ current_device
    \/ synchronize
    \/ check_audio_file
    \/ emit_start_status
    \/ emit_start_progress
    \/ call_transcribe_audio
    \/ pair_bridge_progress
    \/ bridge_status
    \/ bridge_return
    \/ bridge_raise
    \/ emit_done_progress
    \/ emit_done_status
    \/ emit_data
    \/ emit_finished
    \/ handle_exception

\* The two runs interleave in every way.
NextPair == NextTranscriber \/ NextOther

SpecPair == InitPair /\ [][NextPair]_vars

\* ------------------------------------------- the callback, fed directly
\* A fresh TranscriptionWorker whose progress callback is called directly
\* (run() not started), as a unit test of the throttle does.
InitFeed ==
    /\ Init
    /\ kind = "transcriber"
    /\ ~cudaAvailable
    /\ models = None
    /\ config.device = "cpu"

\* Values fed with no wall-clock advance: the first is 0, 1 or 2, a later one
\* is near the one before it (a step of -1, 0, 1 or 2).
FeedValues ==
    IF cbLog = <<>> THEN 0..2
    ELSE {p \in 0..MaxFeed : p - cbLog[Len(cbLog)].p \in (0 - 1)..2}

feed_progress ==
    /\ pc = "created"
    /\ kind = "transcriber"
    /\ Len(cbLog) < MaxFeed
    /\ \E p \in FeedValues : TranscriptionWorker_on_progress_update(p, now)
    /\ UNCHANGED <<ctor, thread, other, num_threads, bridge, pc, exc, outcome, devOps, bridgeCalls, retval>>

SpecFeed == InitFeed /\ [][feed_progress]_vars

\* Values fed with the clock advancing between them.
feed_progress_timed ==
    /\ pc = "created"
    /\ kind = "transcriber"
    /\ Len(cbLog) < MaxTimedFeed
    /\ \E p \in RawValues, dt \in Delays :
          TranscriptionWorker_on_progress_update(p, now + dt)
    /\ UNCHANGED <<ctor, thread, other, num_threads, bridge, pc, exc, outcome, devOps, bridgeCalls, retval>>

SpecTimedFeed == InitFeed /\ [][feed_progress_timed]_vars

\* ================================================================ claims
EventIdx(t) == {i \in 1..Len(events) : events[i].type = t}
Count(t)    == Cardinality(EventIdx(t))
Emitted(t)  == EventIdx(t) # {}
NumTerminal == Count("finished") + Count("error")
Returned    == pc = "done"

\* The device setup, complete, for the device index the config selects.
ExpectedDeviceId == IF config.device = "cuda" THEN config.device_index ELSE 0
FullSetup ==
    << DevOp("set_num_threads", 1), DevOp("device_enter", ExpectedDeviceId),
       DevOp("current_device", ExpectedDeviceId),
       DevOp("synchronize", ExpectedDeviceId),
       DevOp("device_exit", ExpectedDeviceId) >>
SetupDone == devOps = (IF cudaAvailable THEN FullSetup ELSE <<>>)

AudioUnset == kind = "transcriber" /\ config.audio_file \in {None, ""}
NoAudioMsg == "No audio file specified!"

\* C1: in every execution of run() of either worker, whatever the Bridge and
\* the device setup do, at most one of finished / error has been emitted at
\* any time, and exactly one when run() has returned.
C1_ExactlyOneTerminal ==
    /\ NumTerminal <= 1
    /\ Returned => NumTerminal = 1

\* C1 witness: the Bridge raised after a callback and run() has returned with
\* the error event.
C1_Witness ==
    /\ Returned
    /\ exc = BridgeFault
    /\ Len(cbLog) > 0
    /\ Count("error") = 1

\* C2: run() never propagates a fault; a fault of the try block ends in one
\* error event carrying str(fault); finished is emitted only after the device
\* setup, the Bridge call, progress 100, the final status and the data event
\* all completed.
C2_FaultsBecomeError ==
    /\ outcome # "raised"
    /\ (Returned /\ exc # NoFault) =>
          /\ Count("error") = 1
          /\ events[Len(events)] = error(exc.msg)
          /\ ~Emitted("finished")
    /\ Emitted("finished") =>
          /\ exc = NoFault
          /\ SetupDone
          /\ Len(bridgeCalls) = 1
          /\ retval # None
          /\ Len(events) >= 4
          /\ SubSeq(events, Len(events) - 3, Len(events)) =
                << progress_updated(100),
                   status_updated(IF kind = "loader"
                                    THEN "Models loaded successfully"
                                    ELSE "Transcription completed"),
                   Ev(IF kind = "loader" THEN "models_loaded"
                                         ELSE "transcription_completed",
                      0, "", retval),
                   finished >>

\* C2 witness: an emit of the success path (the data event) raised, after the
\* Bridge had returned, and the fault was turned into the error event.
C2_Witness ==
    /\ Returned
    /\ exc = EmitFault
    /\ retval # None
    /\ Len(events) >= 2
    /\ events[Len(events) - 1].type = "status_updated"
    /\ events[Len(events)] = error(EmitFault.msg)

\* C3: with config.audio_file unset, TranscriptionWorker.run() emits exactly
\* one error event and no other event, and never invokes
\* Bridge.transcribe_audio, accelerator present or not.
C3_UnsetAudioOnlyError ==
    AudioUnset =>
        /\ bridgeCalls = <<>>
        /\ \A i \in 1..Len(events) : events[i].type = "error"
        /\ Len(events) <= 1
        /\ Returned => Len(events) = 1

\* C3 witness: a run with the audio file unset and no accelerator has ended.
C3_Witness ==
    /\ AudioUnset
    /\ ~cudaAvailable
    /\ Returned
    /\ events = <<error(NoAudioMsg)>>

IsProgressEvent(e) == e.type = "progress_updated"
IsProgressCb(c)    == c.cb = "progress"
ProgressEvents     == SelectSeq(events, IsProgressEvent)
ProgressValues     == [i \in 1..Len(ProgressEvents) |-> ProgressEvents[i].pct]
RawCbs             == SelectSeq(cbLog, IsProgressCb)
RawOf(log)         == [i \in 1..Len(log) |-> log[i].p]

\* A step in which the transcriber's progress callback was called.
ProgressCallbackStep ==
    /\ kind = "transcriber"
    /\ Len(cbLog') = Len(cbLog) + 1
    /\ cbLog'[Len(cbLog')].cb = "progress"

RECURSIVE DeltaFilter(_, _)
DeltaFilter(raw, last) ==
    IF raw = <<>> THEN <<>>
    ELSE IF Head(raw) - last >= 2
           THEN <<Head(raw)>> \o DeltaFilter(Tail(raw), Head(raw))
           ELSE DeltaFilter(Tail(raw), last)
ExpectedNoDelay(raw) ==
    IF raw = <<>> THEN <<>> ELSE <<Head(raw)>> \o DeltaFilter(Tail(raw), Head(raw))

NoClockAdvance == \A i \in 1..Len(cbLog) : cbLog[i].t = ClockStart

\* C6: raw values fed to a fresh TranscriptionWorker's callback with no
\* wall-clock advance: the emitted values are the first raw value and every
\* later value at least 2 above the value emitted last; 0,1,2,3,4,5,6 gives
\* exactly 0,2,4,6.
C6_NoDelayLaw ==
    NoClockAdvance =>
        /\ ProgressValues = ExpectedNoDelay(RawOf(cbLog))
        /\ RawOf(cbLog) = <<0, 1, 2, 3, 4, 5, 6>> => ProgressValues = <<0, 2, 4, 6>>

\* C6 witness: the sequence 0..6 was fed with no delay.
C6_Witness ==
    /\ NoClockAdvance
    /\ RawOf(cbLog) = <<0, 1, 2, 3, 4, 5, 6>>
    /\ Len(ProgressValues) = 4

\* C7 as stated (for raw values within 0..100): any two raw values delivered
\* at least 2 seconds apart are both emitted, wherever the pair occurs in the
\* raw sequence.
C7_Original ==
    (kind = "transcriber" /\ \A k \in 1..Len(RawCbs) : RawCbs[k].p \in 0..100) =>
        \A i, j \in 1..Len(RawCbs) :
            (i < j /\ RawCbs[j].t - RawCbs[i].t >= 2) =>
                (RawCbs[i].emitted /\ RawCbs[j].emitted)

\* C7 amended: of two raw values delivered one right after the other at least
\* 2 seconds apart, the later one is always emitted, whatever their
\* difference; the earlier one is emitted only if it met the throttle
\* condition when it arrived, which the first value delivered always does.
C7_LaterOfDelayedPairEmitted ==
    kind = "transcriber" =>
        /\ \A i \in 1..(Len(RawCbs) - 1) :
              RawCbs[i + 1].t - RawCbs[i].t >= 2 => RawCbs[i + 1].emitted
        /\ Len(RawCbs) >= 1 => RawCbs[1].emitted

\* C7 witness: the second value was dropped, the third came 2 seconds after
\* it with a difference below 2 and was emitted.
C7_Witness ==
    /\ kind = "transcriber"
    /\ Len(RawCbs) = 3
    /\ ~RawCbs[2].emitted
    /\ RawCbs[3].t - RawCbs[2].t >= 2
    /\ RawCbs[3].p - RawCbs[2].p < 2
    /\ RawCbs[3].p - RawCbs[1].p < 2
    /\ RawCbs[3].emitted

\* ------------------------------------------------- the event order (C8..C10)
NonDecreasing(seq) == \A i \in 1..(Len(seq) - 1) : seq[i] <= seq[i + 1]
RawInRange         == \A i \in 1..Len(RawCbs) : RawCbs[i].p \in 0..100
Successful         == Emitted("finished")

ProgressFrame ==
    /\ Len(ProgressValues) >= 2
    /\ ProgressValues[1] = 0
    /\ ProgressValues[Len(ProgressValues)] = 100
    /\ Count("finished") = 1
    /\ events[Len(events)] = finished
    /\ \E i \in EventIdx("progress_updated") :
          events[i].pct = 100 /\ \A j \in EventIdx("finished") : i < j

\* C8 as stated (for raw values within 0..100): in a successful run the
\* progress values are non-decreasing, start at 0 and end at 100, and
\* finished is emitted once, last, after progress_updated(100), for any
\* sequence of raw values of the Bridge.
C8_Original ==
    (Successful /\ RawInRange) => (ProgressFrame /\ NonDecreasing(ProgressValues))

\* C8 amended: in a successful run the first progress value is 0 and the last
\* is 100, progress_updated(100) precedes finished, finished is the last
\* event and occurs once; the progress values are non-decreasing when the raw
\* values of the Bridge are non-decreasing and within 0..100.
C8_ProgressFrame ==
    Successful =>
        /\ ProgressFrame
        /\ (RawInRange /\ NonDecreasing(RawOf(RawCbs))) => NonDecreasing(ProgressValues)

\* C8 witness: a successful run in which the Bridge delivered two increasing
\* raw values.
C8_Witness ==
    /\ Successful
    /\ Returned
    /\ Len(RawCbs) = 2
    /\ RawCbs[1].p < RawCbs[2].p
    /\ RawInRange

\* C9: no event follows the terminal event: finished and error occur only as
\* the last event, and nothing is emitted once run() has returned.
C9_NothingAfterTerminal ==
    [][/\ \A i \in 1..Len(events') :
            events'[i].type \in {"finished", "error"} => i = Len(events')
       /\ (Emitted("finished") \/ Emitted("error") \/ Returned) => events' = events]_vars

\* C9 witness: run() ended in the error event after forwarded callbacks.
C9_Witness ==
    /\ Returned
    /\ Len(events) >= 4
    /\ events[Len(events)].type = "error"
    /\ events[Len(events) - 1].type = "progress_updated"

\* The events the loader's callbacks forward, in the order of the callbacks.
Forwarded(log) ==
    [i \in 1..Len(log) |->
        IF log[i].cb = "progress" THEN Ev("progress_updated", log[i].p, "", "")
                                  ELSE Ev("status_updated", 0, log[i].text, "")]

\* C10: when Bridge.load_models succeeds (and no emit fails), the loader's
\* events are status_updated("Loading model"), progress_updated(0), the
\* events the callbacks forwarded, progress_updated(100),
\* status_updated("Models loaded successfully"), models_loaded(models),
\* finished; with no callback exactly these six.
C10_LoaderSuccessSequence ==
    (kind = "loader" /\ Returned /\ retval # None /\ exc = NoFault) =>
        /\ events = << Ev("status_updated", 0, "Loading model", ""),
                       Ev("progress_updated", 0, "", "") >>
                    \o Forwarded(cbLog)
                    \o << Ev("progress_updated", 100, "", ""),
                          Ev("status_updated", 0, "Models loaded successfully", ""),
                          Ev("models_loaded", 0, "", retval),
                          Ev("finished", 0, "", "") >>
        /\ cbLog = <<>> => Len(events) = 6

\* C10 witness: load_models returned without calling back; six events.
C10_Witness ==
    /\ kind = "loader"
    /\ Returned
    /\ retval \in ModelSets
    /\ cbLog = <<>>
    /\ Len(events) = 6
    /\ events[6] = finished

\* ------------------------------------------------ faults and setup (C11..C13)
IsEmittedCb(c) == c.emitted
EmittedCbs     == SelectSeq(cbLog, IsEmittedCb)
StartEvents ==
    << Ev("status_updated", 0,
          IF kind = "loader" THEN "Loading model" ELSE "Starting transcription...",
          ""),
       Ev("progress_updated", 0, "", "") >>

\* C11: when the Bridge operation raises after callbacks, the events already
\* emitted are kept and followed by exactly one error event carrying
\* str(fault); no finished, no data event and no progress_updated(100) of the
\* success path is emitted.
C11_BridgeFaultKeepsEvents ==
    exc = BridgeFault =>
        /\ pc = "except" => events = StartEvents \o Forwarded(EmittedCbs)
        /\ Returned =>
              events = StartEvents \o Forwarded(EmittedCbs)
                       \o << Ev("error", 0, "bridge operation failed", "") >>
        /\ ~Emitted("finished")
        /\ ~Emitted("models_loaded") /\ ~Emitted("transcription_completed")
        /\ \A i \in EventIdx("progress_updated") : events[i].pct # 100

\* C11 witness: transcribe_audio raised after two progress callbacks, one of
\* them dropped by the throttle; run() has returned.
C11_Witness ==
    /\ kind = "transcriber"
    /\ exc = BridgeFault
    /\ Returned
    /\ Len(RawCbs) = 2
    /\ RawCbs[1].emitted /\ ~RawCbs[2].emitted
    /\ Len(events) = 4

\* C12: with an accelerator present the whole device setup (threads pinned
\* to 1, device context entered for device_index if device is 'cuda' else 0,
\* context created, synchronize) has run on the executing pool thread before
\* the Bridge operation is invoked, which happens on the same thread, also
\* for a TranscriptionWorker given preloaded models; with no accelerator no
\* device operation is performed.
C12_DeviceSetupBeforeBridge ==
    /\ ~cudaAvailable => devOps = <<>>
    /\ \A i \in 1..Len(devOps) :
          /\ devOps[i].thread \in PoolThreads
          /\ devOps[i].thread = thread
          /\ i <= 5
          /\ devOps[i].op # "device_exit" =>
                devOps[i] = [op |-> FullSetup[i].op, arg |-> FullSetup[i].arg,
                             thread |-> thread]
    /\ \A i \in 1..Len(bridgeCalls) :
          /\ bridgeCalls[i].thread = thread
          /\ thread \in PoolThreads
          /\ cudaAvailable =>
                /\ Len(devOps) = 5
                /\ \A j \in 1..5 :
                      /\ devOps[j].op = FullSetup[j].op
                      /\ devOps[j].arg = (IF j = 1 THEN 1 ELSE ExpectedDeviceId)
                      /\ devOps[j].thread = bridgeCalls[i].thread

\* C12 witness: a TranscriptionWorker with preloaded models, device 'cpu' with
\* device_index 1 and an accelerator present has invoked transcribe_audio.
C12_Witness ==
    /\ kind = "transcriber"
    /\ models \in ModelSets
    /\ cudaAvailable
    /\ config.device = "cpu" /\ config.device_index = 1
    /\ Len(bridgeCalls) = 1
    /\ devOps[2].op = "device_enter" /\ devOps[2].arg = 0

\* C13: the data event carries the very value the Bridge returned, the
\* ModelSet given at construction is what transcribe_audio receives (None
\* when absent), and no step changes the config, the ModelSet or the result.
C13_PayloadPassThrough ==
    [][/\ \A i \in 1..Len(events') :
            events'[i].type \in {"models_loaded", "transcription_completed"} =>
               /\ events'[i].data = retval'
               /\ retval' \in (IF kind = "loader" THEN ModelSets ELSE Results)
               /\ events'[i].type = (IF kind = "loader" THEN "models_loaded"
                                     ELSE "transcription_completed")
       /\ \A i \in 1..Len(bridgeCalls') :
            bridgeCalls'[i].models = (IF kind = "loader" THEN None ELSE models)
       /\ config' = config
       /\ models' = models
       /\ retval # None => retval' = retval]_vars

\* C13 witness: transcription_completed was emitted with the second result,
\* after transcribe_audio had been given the preloaded models.
C13_Witness ==
    /\ kind = "transcriber"
    /\ models = "modelset_A"
    /\ bridgeCalls = << [op |-> "transcribe_audio", models |-> "modelset_A",
                         thread |-> thread] >>
    /\ \E i \in EventIdx("transcription_completed") : events[i].data = "result_B"

\* ------------------------------------------------------------- C15, C17..C20
\* C15: ModelLoaderWorker forwards every callback verbatim: each raw progress
\* value gives one progress_updated with that value and each status text one
\* status_updated with that text, in the order of the callbacks, nothing
\* dropped, merged or reordered.
C15_LoaderForwardsVerbatim ==
    (kind = "loader" /\ bridgeCalls # <<>>) =>
        /\ Len(events) >= 2 + Len(cbLog)
        /\ SubSeq(events, 3, 2 + Len(cbLog)) = Forwarded(cbLog)
        /\ pc = "in_bridge" => Len(events) = 2 + Len(cbLog)

\* C15 witness: load_models passed the same raw value twice and then
\* returned; both were forwarded.
C15_Witness ==
    /\ kind = "loader"
    /\ Len(cbLog) = 2
    /\ cbLog[1].cb = "progress" /\ cbLog[2].cb = "progress"
    /\ cbLog[1].p = cbLog[2].p
    /\ retval # None
    /\ events[3] = events[4]

AllProgressInRange == \A i \in EventIdx("progress_updated") : events[i].pct \in 0..100

\* C17: every progress_updated event of either task carries a percent in
\* 0..100.
C17_ProgressInRange == AllProgressInRange

\* C18: when the device setup faults, the run emits exactly one error event
\* and nothing else, the Bridge operation is never invoked, and the setup is
\* not tried again.
C18_DeviceFaultOnlyError ==
    exc = DeviceFault =>
        /\ bridgeCalls = <<>>
        /\ pc \in {"except", "done"}
        /\ pc = "except" => events = <<>>
        /\ Returned => events = << Ev("error", 0, "CUDA error", "") >>
        /\ Cardinality({i \in 1..Len(devOps) : devOps[i].op = "device_enter"}) <= 1
        /\ Cardinality({i \in 1..Len(devOps) : devOps[i].op = "set_num_threads"}) = 1

\* C18 witness: synchronize faulted in a ModelLoaderWorker; run() returned.
C18_Witness ==
    /\ kind = "loader"
    /\ exc = DeviceFault
    /\ Returned
    /\ Len(devOps) = 4
    /\ devOps[3].op = "current_device"

\* C19: the bridge is None from construction until run() executes and is
\* created inside run(), on the pool thread; before that no Bridge operation
\* and no device operation is invoked and nothing is emitted by run().
C19_BridgeCreatedLazily ==
    /\ pc \in {"created", "import", "construct"} =>
          (bridge = None /\ devOps = <<>> /\ bridgeCalls = <<>>)
    /\ thread = MainThread => (pc = "created" /\ bridge = None)
    /\ bridge # None => (bridge = "WhisperXBridge" /\ thread \in PoolThreads)

\* C19 witness: run() has just created the bridge on the pool thread.
C19_Witness ==
    /\ pc = "cuda_check"
    /\ bridge = "WhisperXBridge"
    /\ thread \in PoolThreads
    /\ devOps = <<>>

EmittedRaw == SelectSeq(RawCbs, IsEmittedCb)
ThrottleTracksEmitted ==
    /\ last_progress_value =
          (IF EmittedRaw = <<>> THEN 0 - 1 ELSE EmittedRaw[Len(EmittedRaw)].p)
    /\ last_progress_time =
          (IF EmittedRaw = <<>> THEN 0 ELSE EmittedRaw[Len(EmittedRaw)].t)
    /\ Len(RawCbs) >= 1 => RawCbs[1].emitted

\* C20: P and T change only with an emitted callback value (they are the
\* value and time of the last one emitted), P is -1 exactly when no callback
\* value has been emitted, and the first raw value delivered is always
\* emitted.
C20_ThrottleStateTracksEmitted ==
    kind = "transcriber" =>
        /\ ThrottleTracksEmitted
        /\ last_progress_value = 0 - 1 <=> EmittedRaw = <<>>

\* C16: once run() has started, and given that the device setup and the
\* Bridge operation each return or fault, the task eventually emits its
\* terminal event and run() returns; no state waits forever.
C16_RunTerminates ==
    (pc # "created") ~> (Returned /\ outcome = "returned" /\ NumTerminal = 1)

\* C16 witness: run() returned after a device setup and a Bridge operation
\* that used all its callbacks.
C16_Witness ==
    /\ Returned
    /\ NumTerminal = 1
    /\ devOps # <<>>
    /\ bridgeCalls # <<>>
    /\ Len(cbLog) = MaxCallbacks

\* ------------------------------------------------------------------- C14
\* The emitted flags of the raw values raw[k..] are those the throttle gives
\* from the state P, T.
RECURSIVE Replay(_, _, _, _)
Replay(raw, k, P, T) ==
    IF k > Len(raw) THEN TRUE
    ELSE LET e == (raw[k].p - P >= ThrottleDelta \/ raw[k].t - T >= ThrottleSeconds)
         IN  /\ raw[k].emitted = e
             /\ Replay(raw, k + 1, IF e THEN raw[k].p ELSE P, IF e THEN raw[k].t ELSE T)

\* The emitted flags of a TranscriptionWorker's callback log are those the
\* throttle gives on that log alone, from P = -1 and T = 0.
ThrottledAlone(log) == Replay(SelectSeq(log, IsProgressCb), 1, 0 - 1, 0)

\* The events a run has emitted for its callbacks are those of its own log,
\* after its own two start events, in the order of the log.
CallbackEventsOf(evs, log) ==
    LET em == SelectSeq(log, IsEmittedCb)
    IN  em # <<>> =>
          /\ Len(evs) >= 2 + Len(em)
          /\ SubSeq(evs, 1, 2) = StartEvents
          /\ SubSeq(evs, 3, 2 + Len(em)) = Forwarded(em)

RunsAsAlone ==
    /\ ThrottledAlone(cbLog)
    /\ ThrottledAlone(o_cbLog)
    /\ CallbackEventsOf(events, cbLog)
    /\ CallbackEventsOf(o_events, o_cbLog)

\* A step that changes a field of one worker leaves every field of the other.
NoInterference ==
    /\ (<<task1, throttle1>>' # <<task1, throttle1>>) => UNCHANGED other
    /\ (other' # other) => UNCHANGED <<task1, throttle1>>

\* C14 as stated: no mutable state is written by one task and read or
\* written by the other, and each task's events are those of its run alone.
C14_Original ==
    /\ Cardinality(num_threads.by) <= 1
    /\ RunsAsAlone

\* C14 amended: no field of one task is read or written by the other, and
\* each task's events are in emission order and those of its run alone; the
\* throttle state of one TranscriptionWorker is never affected by the other
\* task. The tasks do write one piece of process-wide state: each sets the
\* intra-op thread count to 1 when an accelerator is present; the value is
\* the same and no task reads it.
C14_OnlyThreadCountShared ==
    /\ [](/\ num_threads.n = (IF num_threads.by = {} THEN 0 ELSE 1)
          /\ num_threads.by \subseteq {Task1, Task2}
          /\ RunsAsAlone)
    /\ [][NoInterference]_vars

\* C14 witness: both runs set the thread count and returned; the second
\* worker's callback, with the value 2, came between two callbacks of the
\* first with the value 0, the later of which passed on the time test of
\* its own throttle.
C14_Witness ==
    /\ Returned /\ o_pc = "done"
    /\ num_threads.by = {Task1, Task2}
    /\ Len(cbLog) = 2 /\ Len(RawCbs) = 2
    /\ Len(o_cbLog) = 1
    /\ RawCbs[1].p = 0 /\ RawCbs[2].p = 0 /\ o_cbLog[1].p = ThrottleDelta
    /\ RawCbs[1].emitted /\ RawCbs[2].emitted
    /\ ClockStart < RawCbs[1].t
    /\ RawCbs[1].t = o_cbLog[1].t
    /\ o_cbLog[1].t < RawCbs[2].t
    /\ Count("finished") = 1
    /\ o_events[Len(o_events)] = finished

====
